---- MODULE Spec2Model ----
(***************************************************************************)
(* TaskFlow Pro back end: the credential store (models/User.js), the       *)
(* authorization gate (middleware/auth.js), the task store                 *)
(* (models/Task.js) and the task handlers (controllers/taskController.js). *)
(*                                                                         *)
(* Time is counted in minutes.  Dates are naturals, NoDate stands for a    *)
(* null / undefined date.  Document ids are the hex strings of their       *)
(* ObjectIds; a JavaScript value that the code compares with === / !== is  *)
(* a record [type, v] so that a string and an ObjectId stay different.     *)
(***************************************************************************)
EXTENDS Integers, Sequences, FiniteSets, TLC

VARIABLES users, tasks, nextId, now, res, streak, loaded, ui

vars == <<users, tasks, nextId, now, res, streak, loaded, ui>>

\* ------------------------------------------------------------------ bounds

\* The clock stops at MaxNow minutes.
MaxNow == 90
\* At most MaxTasks task documents are ever created.
MaxTasks == 2
\* The creator's statistics.tasksCompleted counter is followed up to this value.
MaxCompleted == 2

\* The clock advances in steps of these many minutes.
TickSteps == {15, 30}

\* ------------------------------------------------------------- small values

NoDate == -1
NoUser == "null"
UnknownUser == "u9"
Users == {"u1", "u2"}

Passwords == {"Secret1", "Wrong1"}

\* The login requests in flight at one time
Procs == {"p1", "p2"}
PasswordOf(u) == "Secret1"

\* ------------------------------------------------------ JavaScript values

\* A string is the tuple of its pieces, an ObjectId carries its hex, a
\* populated document carries the hex of its _id.
JsString(s) == [type |-> "string", v |-> <<s>>]
ObjectId(h) == [type |-> "ObjectId", v |-> <<h>>]
Document(h) == [type |-> "Document", v |-> <<h>>]
\* x.toString(): ObjectId.prototype.toString() is the hex string of the id;
\* Document.prototype.toString() is the text of util.inspect(document).
toString(x) ==
  IF x.type = "Document"
    THEN [type |-> "string", v |-> <<"{ _id: ", x.v[1], ", ... }">>]
    ELSE [type |-> "string", v |-> x.v]
\* a === b. Two strings are equal by content; an object is equal only to
\* itself, and every ObjectId here is an instance of its own (one read from a
\* task document, the other from a user document).
StrictEquals(a, b) == a.type = "string" /\ b.type = "string" /\ a.v = b.v

\* -------------------------------------------------------- credential store

\* bcrypt.hash / bcrypt.compare
BcryptHash(p) == <<"bcrypt", p>>
BcryptCompare(candidate, hash) == hash = BcryptHash(candidate)

\* The state of AuthProvider when it is mounted: no user, loading, the
\* token localStorage holds, and the effect that runs initializeAuth pending
AuthProvider ==
  [user |-> "null", loading |-> TRUE, token |-> FALSE, call |-> "initializeAuth"]

\* bcrypt.hash of the string a document holds in password: the plaintext just
\* assigned is <<p>>, its hash <<"bcrypt", p>>, the hash of a hash has the
\* prefix twice
HashString(s) == <<"bcrypt">> \o s

\* The password validators of the schema on the passwords in use
PasswordValid(p) == p # "short"

\* The hook hashes at every save (a variant of preSavePassword without its
\* isModified test).
preSavePassword_always(doc, modified) ==
  [doc EXCEPT !.password = HashString(@)]

\* userSchema.pre('save'): the password is hashed when it was modified
preSavePassword(doc, modified) ==
  IF ~modified THEN doc ELSE [doc EXCEPT !.password = HashString(@)]

\* 30 * 60 * 1000 ms
LOCK_MINUTES == 30
\* "Lock account for 30 minutes after 5 failed attempts"
MAX_ATTEMPTS == 5
\* The max of the loginAttempts path
MAX_LOGIN_ATTEMPTS == 5

NewUser(u) ==
  [ _id           |-> u,
    name          |-> <<"name", u>>,
    email         |-> <<"email", u>>,
    role          |-> "user",
    isVerified    |-> FALSE,
    isActive      |-> TRUE,
    password      |-> BcryptHash(PasswordOf(u)),
    loginAttempts |-> 0,
    lockUntil     |-> NoDate,
    lastLogin     |-> NoDate,
    tasksCompleted |-> 0 ]

\* userSchema.virtual('isLocked')
isLocked(doc, t) == doc.lockUntil # NoDate /\ doc.lockUntil > t

\* The account locks only after the 6th failure (a variant of
\* handleFailedLogin with > for >=).
handleFailedLogin_late(doc, t) ==
  LET d1 == [doc EXCEPT !.loginAttempts = @ + 1]
  IN  IF d1.loginAttempts > MAX_ATTEMPTS /\ ~isLocked(d1, t)
        THEN [d1 EXCEPT !.lockUntil = t + LOCK_MINUTES]
        ELSE d1

\* userSchema.methods.handleFailedLogin: the document after the save
handleFailedLogin(doc, t) ==
  LET d1 == [doc EXCEPT !.loginAttempts = @ + 1]
  IN  IF d1.loginAttempts >= MAX_ATTEMPTS /\ ~isLocked(d1, t)
        THEN [d1 EXCEPT !.lockUntil = t + LOCK_MINUTES]
        ELSE d1

\* The counter is reset and the lock is left in place (a variant of
\* resetLoginAttempts without its second assignment).
resetLoginAttempts_keepLock(doc) == [doc EXCEPT !.loginAttempts = 0]

\* userSchema.methods.resetLoginAttempts
resetLoginAttempts(doc) ==
  [doc EXCEPT !.loginAttempts = 0, !.lockUntil = NoDate]

\* The password is compared before the lock is looked at (a variant of
\* comparePassword with its first two steps exchanged).
comparePassword_compareFirst(doc, candidatePassword, t) ==
  IF ~BcryptCompare(candidatePassword, doc.password)
    THEN [outcome |-> IF isLocked(doc, t) THEN "locked" ELSE "false",
          doc |-> preSavePassword(handleFailedLogin(doc, t), FALSE)]
    ELSE IF isLocked(doc, t)
      THEN [outcome |-> "locked", doc |-> doc]
      ELSE LET d1 == IF doc.loginAttempts > 0 \/ doc.lockUntil # NoDate
                       THEN resetLoginAttempts(doc) ELSE doc
           IN  [outcome |-> "true",
                doc |-> preSavePassword([d1 EXCEPT !.lastLogin = t], FALSE)]

\* userSchema.methods.comparePassword on the document of user u:
\* [outcome, doc] where outcome is "locked" (the throw), "false" or "true"
comparePassword(doc, candidatePassword, t) ==
  IF isLocked(doc, t)
    THEN [outcome |-> "locked", doc |-> doc]
    ELSE IF ~BcryptCompare(candidatePassword, doc.password)
      THEN [outcome |-> "false",
            doc |-> preSavePassword(handleFailedLogin(doc, t), FALSE)]
      ELSE LET d1 == IF doc.loginAttempts > 0 \/ doc.lockUntil # NoDate
                       THEN resetLoginAttempts(doc) ELSE doc
           IN  [outcome |-> "true",
                doc |-> preSavePassword([d1 EXCEPT !.lastLogin = t], FALSE)]

\* ------------------------------------------------------ authorization gate

\* Authorization headers. A token is [form, sig, userId, exp]: form "jwt" is a
\* well-formed token, "garbage" one that does not parse, "empty" the empty
\* string left of the header "Bearer ".
Token(form, sig, userId, exp) ==
  [form |-> form, sig |-> sig, userId |-> userId, exp |-> exp]
NoToken == Token("empty", "bad", NoUser, 0)
NoHeader == [kind |-> "none", token |-> NoToken]
BasicHeader == [kind |-> "basic", token |-> NoToken]
Bearer(tok) == [kind |-> "bearer", token |-> tok]

\* The expiry of the tokens in flight, in minutes.
TokenExpiries == {45, 120}

Headers ==
  {NoHeader, BasicHeader, Bearer(NoToken),
   Bearer(Token("garbage", "bad", NoUser, 0)),
   Bearer(Token("jwt", "bad", "u1", 120))}
  \cup {Bearer(Token("jwt", "good", u, e)) :
          u \in Users \cup {UnknownUser}, e \in TokenExpiries}

\* jwt.verify(token, secret): the decoded payload, or the name of the error
jwtVerify(token, t) ==
  CASE token.form # "jwt"   -> [error |-> "JsonWebTokenError", userId |-> NoUser]
    [] token.sig # "good"   -> [error |-> "JsonWebTokenError", userId |-> NoUser]
    [] t >= token.exp       -> [error |-> "TokenExpiredError", userId |-> NoUser]
    [] OTHER                -> [error |-> "", userId |-> token.userId]

\* Deactivated users are found too (a variant of ActiveOnly without the
\* pre-find filter).
ActiveOnly_unfiltered(coll, h) == h \in DOMAIN coll

\* userSchema.pre(/^find/): only active users are found
ActiveOnly(coll, h) == h \in DOMAIN coll /\ coll[h].isActive

\* User.findById(id): <<document>> or <<>> for null
UserFindById(coll, h) == IF ActiveOnly(coll, h) THEN <<coll[h]>> ELSE <<>>

\* req.user as the gate attaches it
ReqUser(user) ==
  [ id |-> ObjectId(user._id), name |-> user.name, email |-> user.email,
    role |-> user.role, isVerified |-> user.isVerified ]

\* auth(req, res, next): [status, next, reqUser]; status 0 when no response
\* is sent, next the number of calls of next()
auth(h, coll, t) ==
  IF h.kind # "bearer"
    THEN [status |-> 401, next |-> 0, reqUser |-> <<>>]
  ELSE IF h.token.form = "empty"
    THEN [status |-> 401, next |-> 0, reqUser |-> <<>>]
  ELSE LET decoded == jwtVerify(h.token, t) IN
    IF decoded.error \in {"JsonWebTokenError", "TokenExpiredError"}
      THEN [status |-> 401, next |-> 0, reqUser |-> <<>>]
    ELSE LET user == UserFindById(coll, decoded.userId) IN
      IF user = <<>>
        THEN [status |-> 401, next |-> 0, reqUser |-> <<>>]
        ELSE [status |-> 0, next |-> 1, reqUser |-> <<ReqUser(user[1])>>]

\* The optional gate rejects what the gate rejects (a variant of
\* optionalAuth that answers 401).
optionalAuth_rejecting(h, coll, t) == auth(h, coll, t)

\* optionalAuth(req, res, next)
optionalAuth(h, coll, t) ==
  IF h.kind = "bearer"
    THEN LET decoded == jwtVerify(h.token, t) IN
      IF decoded.error # ""
        THEN [status |-> 0, next |-> 1, reqUser |-> <<>>]
        ELSE LET user == UserFindById(coll, decoded.userId) IN
          IF user # <<>>
            THEN [status |-> 0, next |-> 1, reqUser |-> <<ReqUser(user[1])>>]
            ELSE [status |-> 0, next |-> 1, reqUser |-> <<>>]
    ELSE [status |-> 0, next |-> 1, reqUser |-> <<>>]

\* --------------------------------------------------------------- task store

Statuses == {"pending", "in-progress", "completed", "cancelled", "on-hold"}
Priorities == {"low", "medium", "high", "urgent"}

\* The _id of the n-th task document, an id that is no ObjectId, and the ids
\* a request may carry.
TaskIdOf(n) == <<"task", n>>
MalformedId == <<"abc">>
TaskIds == {TaskIdOf(n) : n \in 1..MaxTasks}

\* String.prototype.trim on the titles in use
Trim(s) ==
  CASE s = " Fix bug " -> "Fix bug"
    [] s = "  "        -> ""
    [] OTHER           -> s

\* A title of 101 characters, and the length of the titles in use
LongTitle == "x(101)"
MAX_TITLE == 100
TitleLength(s) ==
  CASE s = ""        -> 0
    [] s = LongTitle -> 101
    [] OTHER         -> 10

\* The range of estimatedHours and actualHours
MAX_HOURS == 1000

\* A request body: every field is <<>> (not in the body) or <<value>>.
Body(title, status, priority, assignedTo, isArchived) ==
  [ title |-> title, status |-> status, priority |-> priority,
    assignedTo |-> assignedTo, isArchived |-> isArchived,
    dueDate |-> <<>>, estimatedHours |-> <<>>, actualHours |-> <<>>,
    createdBy |-> <<>> ]

\* The body with one more field given
BodyWith(body, field, value) == [body EXCEPT ![field] = <<value>>]

\* new Task(fields): the schema's defaults, then the fields given
NewTask(id, n, fields, createdBy, t) ==
  [ _id         |-> id,
    title       |-> IF fields.title = <<>> THEN "" ELSE Trim(fields.title[1]),
    status      |-> IF fields.status = <<>> THEN "pending" ELSE fields.status[1],
    priority    |-> IF fields.priority = <<>> THEN "medium" ELSE fields.priority[1],
    assignedTo  |-> IF fields.assignedTo = <<>> THEN NoUser ELSE fields.assignedTo[1],
    createdBy   |-> createdBy,
    isArchived  |-> IF fields.isArchived = <<>> THEN FALSE ELSE fields.isArchived[1],
    dueDate     |-> IF fields.dueDate = <<>> THEN NoDate ELSE fields.dueDate[1],
    estimatedHours |-> IF fields.estimatedHours = <<>> THEN 0 ELSE fields.estimatedHours[1],
    actualHours |-> IF fields.actualHours = <<>> THEN 0 ELSE fields.actualHours[1],
    archivedAt  |-> NoDate,
    completedAt |-> NoDate,
    createdAt   |-> t,
    seq         |-> n ]

\* The schema's validators on the paths in `paths`, run at time t
SchemaValid(doc, paths, coll, t) ==
  /\ "title" \in paths =>
       (doc.title # "" /\ TitleLength(doc.title) <= MAX_TITLE)
  /\ "dueDate" \in paths => (doc.dueDate = NoDate \/ doc.dueDate > t)
  /\ "estimatedHours" \in paths =>
       (0 <= doc.estimatedHours /\ doc.estimatedHours <= MAX_HOURS)
  /\ "actualHours" \in paths =>
       (0 <= doc.actualHours /\ doc.actualHours <= MAX_HOURS)
  /\ "status" \in paths => doc.status \in Statuses
  /\ "priority" \in paths => doc.priority \in Priorities
  /\ "assignedTo" \in paths =>
       (doc.assignedTo = NoUser \/ ActiveOnly(coll, doc.assignedTo))
  /\ "createdBy" \in paths => ActiveOnly(coll, doc.createdBy)

\* taskSchema.pre('save'): completion and archival dates
preSaveCompletion(doc, t) ==
  LET d1 == IF doc.status = "completed" /\ doc.completedAt = NoDate
              THEN [doc EXCEPT !.completedAt = t] ELSE doc
      d2 == IF d1.status # "completed" /\ d1.completedAt # NoDate
              THEN [d1 EXCEPT !.completedAt = NoDate] ELSE d1
  IN  IF d2.isArchived /\ d2.archivedAt = NoDate
        THEN [d2 EXCEPT !.archivedAt = t] ELSE d2

\* taskSchema.pre('save'): the creator's statistics.tasksCompleted; the
\* User.findByIdAndUpdate goes through the active-only filter
preSaveStatistics(coll, doc, paths) ==
  IF "status" \in paths /\ doc.status = "completed"
       /\ ActiveOnly(coll, doc.createdBy)
    THEN [coll EXCEPT ![doc.createdBy].tasksCompleted = @ + 1]
    ELSE coll

\* The counter stays within the bound followed.
WithinCompleted(coll) == \A u \in DOMAIN coll : coll[u].tasksCompleted <= MaxCompleted

\* The paths of the schema that are required
RequiredPaths == {"title", "createdBy"}

\* document.save() with the paths in `paths` modified: [ok, tasks, users].
\* The required paths and the modified paths are validated, then the
\* pre-save hooks run, then the document is written.
save(store, coll, doc, paths, t) ==
  IF ~SchemaValid(doc, RequiredPaths \cup paths, coll, t)
    THEN [ok |-> FALSE, tasks |-> store, users |-> coll]
    ELSE LET d1 == preSaveCompletion(doc, t)
         IN  [ ok    |-> TRUE,
               tasks |-> [i \in DOMAIN store \cup {doc._id} |->
                            IF i = doc._id THEN d1 ELSE store[i]],
               users |-> preSaveStatistics(coll, doc, paths) ]

\* taskSchema.pre(/^find/): archived tasks are left out
NotArchived(store, id) == id \in DOMAIN store /\ ~store[id].isArchived

\* populate(path): <<user document>>, or <<>> (null) when the active-only
\* filter of the User model finds none
Populate(coll, h) == UserFindById(coll, h)

\* ------------------------------------------------------------ task handlers

\* { page = 1, limit = 10 } = req.query
DEFAULT_PAGE == 1
DEFAULT_LIMIT == 10

\* A query string: every parameter is <<>> (absent) or <<value>>.
Query(status, priority, page, limit) ==
  [status |-> status, priority |-> priority, page |-> page, limit |-> limit]

\* Mongoose casts the value of an ObjectId path of a filter to an ObjectId.
CastObjectId(x) == x.v[1]

\* The filter of getTasks: $or of createdBy / assignedTo, then status and
\* priority when given and not 'all'
ListFilter(reqUser, q) ==
  [ user     |-> CastObjectId(reqUser.id),
    status   |-> IF q.status # <<>> /\ q.status[1] # "all" THEN q.status ELSE <<>>,
    priority |-> IF q.priority # <<>> /\ q.priority[1] # "all" THEN q.priority ELSE <<>> ]

Matches(task, filter) ==
  /\ task.createdBy = filter.user \/ task.assignedTo = filter.user
  /\ filter.status = <<>> \/ task.status = filter.status[1]
  /\ filter.priority = <<>> \/ task.priority = filter.priority[1]

\* Archived tasks are found too (a variant of TaskFind without the hook).
TaskFind_withArchived(store, filter) ==
  {id \in DOMAIN store : Matches(store[id], filter)}

\* Task.find(filter): the pre-find hook adds isArchived: false
TaskFind(store, filter) ==
  {id \in DOMAIN store : NotArchived(store, id) /\ Matches(store[id], filter)}

\* Task.countDocuments(filter): no find hook runs
TaskCount(store, filter) ==
  Cardinality({id \in DOMAIN store : Matches(store[id], filter)})

\* sort({ createdAt: -1 }): newest first. createdAt counts milliseconds, so
\* of two documents created in the same minute the later inserted is newer.
RECURSIVE SortNewestFirst(_, _)
SortNewestFirst(store, ids) ==
  IF ids = {} THEN <<>>
  ELSE LET first == CHOOSE i \in ids : \A j \in ids :
                      \/ store[i].createdAt > store[j].createdAt
                      \/ /\ store[i].createdAt = store[j].createdAt
                         /\ store[i].seq >= store[j].seq
       IN  <<store[first]>> \o SortNewestFirst(store, ids \ {first})

\* .limit(n).skip(k) on a sorted result
Page(docs, skip, limit) ==
  SubSeq(docs, skip + 1,
         IF skip + limit < Len(docs) THEN skip + limit ELSE Len(docs))

\* Math.ceil(n / d) for n >= 0 and d > 0
MathCeil(n, d) == (n + d - 1) \div d

\* exports.getTasks: [status, tasks, total, totalPages]
getTasks(reqUser, q, store) ==
  LET page   == IF q.page = <<>> THEN DEFAULT_PAGE ELSE q.page[1]
      limit  == IF q.limit = <<>> THEN DEFAULT_LIMIT ELSE q.limit[1]
      filter == ListFilter(reqUser, q)
  IN  [ status |-> 200,
        tasks  |-> Page(SortNewestFirst(store, TaskFind(store, filter)),
                        (page - 1) * limit, limit),
        total  |-> TaskCount(store, filter),
        totalPages |-> MathCeil(TaskCount(store, filter), limit) ]

\* The ids are compared by their hex (a variant of NotAuthorized with
\* req.user.id turned into a string first).
NotAuthorized_byHex(c, a, id) ==
  /\ c.v # id.v
  /\ (a = <<>> \/ a[1].v # id.v)

\* The access test of getTask / updateTask: c is task.createdBy (or its _id),
\* a is <<task.assignedTo (or its _id)>> or <<>>, id is req.user.id
NotAuthorized(c, a, id) ==
  /\ ~StrictEquals(toString(c), id)
  /\ (a = <<>> \/ ~StrictEquals(toString(a[1]), id))

\* task.assignedTo after populate: <<user document>> or <<>>
PopulatedAssignee(coll, task) ==
  IF task.assignedTo = NoUser THEN <<>> ELSE Populate(coll, task.assignedTo)

\* exports.getTask: [status, tasks]
getTask(reqUser, id, store, coll) ==
  IF id = MalformedId
    THEN [status |-> 500, tasks |-> <<>>]            \* CastError
  ELSE IF ~NotArchived(store, id)
    THEN [status |-> 404, tasks |-> <<>>]
  ELSE LET createdBy  == Populate(coll, store[id].createdBy)
           assignedTo == PopulatedAssignee(coll, store[id])
       IN  IF createdBy = <<>>
             THEN [status |-> 500, tasks |-> <<>>]   \* TypeError: null._id
           ELSE IF NotAuthorized(ObjectId(createdBy[1]._id),
                     IF assignedTo = <<>> THEN <<>>
                       ELSE <<ObjectId(assignedTo[1]._id)>>,
                     reqUser.id)
             THEN [status |-> 403, tasks |-> <<>>]
             ELSE [status |-> 200, tasks |-> <<store[id]>>]

\* express-validator's taskValidation on the body of createTask
ValidationErrors(body) ==
  \/ body.title = <<>>
  \/ Trim(body.title[1]) = ""
  \/ TitleLength(Trim(body.title[1])) > MAX_TITLE
  \/ /\ body.estimatedHours # <<>>
     /\ ~(0 <= body.estimatedHours[1] /\ body.estimatedHours[1] <= MAX_HOURS)
  \/ body.status # <<>> /\ body.status[1] \notin Statuses
  \/ body.priority # <<>> /\ body.priority[1] \notin Priorities

\* The paths a body sets
GivenPaths(body) == {f \in DOMAIN body : body[f] # <<>>}

\* The paths a new document validates: all of them, defaults included
NewPaths ==
  {"title", "status", "priority", "assignedTo", "createdBy",
   "dueDate", "estimatedHours", "actualHours"}

\* The creator of { ...req.body, createdBy: req.user.id } were the two
\* written the other way round: the body's createdBy, when given
TaskCreator_bodyLast(reqUser, body) ==
  IF body.createdBy # <<>> THEN body.createdBy[1] ELSE CastObjectId(reqUser.id)

\* The createdBy of { ...req.body, createdBy: req.user.id }: the later key of
\* an object literal replaces the one spread before it
TaskCreator(reqUser, body) == CastObjectId(reqUser.id)

\* exports.createTask: [status, tasks, store, users]
createTask(reqUser, body, store, coll, n, t) ==
  IF ValidationErrors(body)
    THEN [status |-> 400, tasks |-> <<>>, store |-> store, users |-> coll]
    ELSE LET task == NewTask(TaskIdOf(n), n, body, TaskCreator(reqUser, body), t)
             r    == save(store, coll, task, NewPaths, t)
         IN  IF ~r.ok
               THEN [status |-> 500, tasks |-> <<>>, store |-> store, users |-> coll]
               ELSE [status |-> 201, tasks |-> <<r.tasks[task._id]>>,
                     store |-> r.tasks, users |-> r.users]

\* Task.findByIdAndUpdate(id, { $set: body }, { new: true, runValidators:
\* true }): the paths of the body are validated and written; no save hook runs
findByIdAndUpdate(store, coll, id, body, t) ==
  LET old == store[id]
      new == [old EXCEPT
                !.title      = IF body.title = <<>> THEN @ ELSE Trim(body.title[1]),
                !.status     = IF body.status = <<>> THEN @ ELSE body.status[1],
                !.priority   = IF body.priority = <<>> THEN @ ELSE body.priority[1],
                !.assignedTo = IF body.assignedTo = <<>> THEN @ ELSE body.assignedTo[1],
                !.isArchived = IF body.isArchived = <<>> THEN @ ELSE body.isArchived[1],
                !.dueDate    = IF body.dueDate = <<>> THEN @ ELSE body.dueDate[1],
                !.estimatedHours =
                   IF body.estimatedHours = <<>> THEN @ ELSE body.estimatedHours[1],
                !.actualHours =
                   IF body.actualHours = <<>> THEN @ ELSE body.actualHours[1],
                !.createdBy  = IF body.createdBy = <<>> THEN @ ELSE body.createdBy[1]]
  IN  IF ~SchemaValid(new, GivenPaths(body), coll, t)
        THEN [ok |-> FALSE, tasks |-> store]
        ELSE [ok |-> TRUE, tasks |-> [store EXCEPT ![id] = new]]

\* exports.updateTask: [status, tasks, store]
updateTask(reqUser, id, body, store, coll, t) ==
  IF id = MalformedId
    THEN [status |-> 500, tasks |-> <<>>, store |-> store]   \* CastError
  ELSE IF ~NotArchived(store, id)
    THEN [status |-> 404, tasks |-> <<>>, store |-> store]
  ELSE LET createdBy  == Populate(coll, store[id].createdBy)
           assignedTo == PopulatedAssignee(coll, store[id])
       IN  IF createdBy = <<>>                    \* TypeError: null.toString
             THEN [status |-> 500, tasks |-> <<>>, store |-> store]
           ELSE IF NotAuthorized(Document(createdBy[1]._id),
                     IF assignedTo = <<>> THEN <<>>
                       ELSE <<Document(assignedTo[1]._id)>>,
                     reqUser.id)
             THEN [status |-> 403, tasks |-> <<>>, store |-> store]
           ELSE LET r == findByIdAndUpdate(store, coll, id, body, t)
                IN  IF ~r.ok
                      THEN [status |-> 500, tasks |-> <<>>, store |-> store]
                      ELSE [status |-> 200, tasks |-> <<r.tasks[id]>>,
                            store |-> r.tasks]

\* exports.deleteTask: [status, store]
deleteTask(reqUser, id, store, coll) ==
  IF id = MalformedId
    THEN [status |-> 500, store |-> store]                   \* CastError
  ELSE IF ~NotArchived(store, id)
    THEN [status |-> 404, store |-> store]
  ELSE LET createdBy == Populate(coll, store[id].createdBy)
       IN  IF createdBy = <<>>                    \* TypeError: null.toString
             THEN [status |-> 500, store |-> store]
           ELSE IF ~StrictEquals(toString(Document(createdBy[1]._id)), reqUser.id)
             THEN [status |-> 403, store |-> store]
             ELSE [status |-> 200,
                   store |-> [i \in DOMAIN store \ {id} |-> store[i]]]

\* taskSchema.virtual('isOverdue') at time t
isOverdue(doc, t) ==
  IF doc.dueDate = NoDate \/ doc.status = "completed" \/ doc.status = "cancelled"
    THEN FALSE
    ELSE t > doc.dueDate

\* Math.round(n / d): the nearest integer, the half rounded up (n >= 0, d > 0)
MathRound(n, d) == (2 * n + d) \div (2 * d)

Min(a, b) == IF a < b THEN a ELSE b

\* statusProgress[status] || 0
StatusProgress(status) ==
  CASE status = "pending"     -> 0
    [] status = "in-progress" -> 50
    [] status = "on-hold"     -> 25
    [] status = "completed"   -> 100
    [] status = "cancelled"   -> 0
    [] OTHER                  -> 0

\* The progress is not capped (a variant of progress without Math.min).
progress_uncapped(doc) ==
  IF doc.status = "completed" THEN 100
  ELSE IF doc.status = "cancelled" THEN 0
  ELSE IF doc.estimatedHours > 0 /\ doc.actualHours > 0
    THEN MathRound(doc.actualHours * 100, doc.estimatedHours)
    ELSE StatusProgress(doc.status)

\* taskSchema.virtual('progress')
progress(doc) ==
  IF doc.status = "completed" THEN 100
  ELSE IF doc.status = "cancelled" THEN 0
  ELSE IF doc.estimatedHours > 0 /\ doc.actualHours > 0
    THEN Min(MathRound(doc.actualHours * 100, doc.estimatedHours), 100)
    ELSE StatusProgress(doc.status)

\* The $match of an aggregation: no hook runs and nothing is cast, so a
\* user id matches the stored ObjectIds only when it is an ObjectId itself.
AggregateMatches(task, userId) ==
  /\ userId.type = "ObjectId"
  /\ task.createdBy = userId.v[1] \/ task.assignedTo = userId.v[1]

\* The statuses the overdue count of exports.getTaskStats looks at
OverdueStatuses == {"pending", "in-progress"}

\* The keys formattedStats starts with
FormattedKeys == {"total", "pending", "in-progress", "completed", "cancelled"}

\* exports.getTaskStats: [status, stats], stats a function of the keys of
\* formattedStats
getTaskStats(reqUser, store, t) ==
  LET matched == {id \in DOMAIN store : AggregateMatches(store[id], reqUser.id)}
      groups  == {store[id].status : id \in matched}
      count(st) == Cardinality({id \in matched : store[id].status = st})
      uid     == CastObjectId(reqUser.id)
      overdueCount ==
        Cardinality({id \in DOMAIN store :
                       /\ store[id].createdBy = uid \/ store[id].assignedTo = uid
                       /\ store[id].dueDate # NoDate /\ store[id].dueDate < t
                       /\ store[id].status \in OverdueStatuses})
  IN  [ status |-> 200,
        stats  |-> [k \in FormattedKeys \cup groups \cup {"overdue"} |->
                      CASE k = "total"   -> Cardinality(matched)
                        [] k = "overdue" -> overdueCount
                        [] k \in groups  -> count(k)
                        [] OTHER         -> 0] ]

\* $round to the place of the hundredths: n / d in hundredths, the half
\* rounded to the even neighbour
RoundHalfEven(n, d) ==
  LET q == (n * 100) \div d
      r == (n * 100) % d
  IN  CASE 2 * r < d -> q
        [] 2 * r > d -> q + 1
        [] OTHER     -> IF q % 2 = 0 THEN q ELSE q + 1

\* Task.getTaskStats(userId): <<>> for null, or <<record>>; the rates are
\* counted in hundredths. userId is <<>> for null or <<ObjectId>>.
TaskGetTaskStats(userId, store, t) ==
  LET matched == {id \in DOMAIN store :
                    /\ ~store[id].isArchived
                    /\ userId = <<>> \/ AggregateMatches(store[id], userId[1])}
      totalTasks     == Cardinality(matched)
      completedTasks == Cardinality({id \in matched : store[id].status = "completed"})
      \* $lt: ['$dueDate', new Date()]: a missing dueDate is less than any date
      overdueTasks   ==
        Cardinality({id \in matched :
                       /\ store[id].status # "completed"
                       /\ store[id].status # "cancelled"
                       /\ store[id].dueDate = NoDate \/ store[id].dueDate < t})
  IN  IF totalTasks = 0
        THEN <<>>                       \* $group of no document yields no group
        ELSE << [ totalTasks      |-> totalTasks,
                  completedTasks  |-> completedTasks,
                  overdueTasks    |-> overdueTasks,
                  completionRate  |->
                    IF totalTasks = 0 THEN 0
                      ELSE RoundHalfEven(completedTasks * 100, totalTasks),
                  statusBreakdown |->
                    [st \in Statuses |->
                       Cardinality({id \in matched : store[id].status = st})] ] >>

\* The response record of the last operation.
Response(op, user, id, status) ==
  [ op |-> op, user |-> user, id |-> id, status |-> status,
    outcome |-> "", next |-> 0, reqUser |-> <<>>, tasks |-> <<>>,
    body |-> <<>>, total |-> 0, stats |-> <<>>,
    error |-> "", fields |-> {} ]

NoResponse == Response("none", NoUser, <<>>, 0)

\* A login attempt: the document of an active user is loaded and
\* comparePassword is called on it. The response keeps the candidate and
\* the loginAttempts the document was loaded with.
ComparePassword(u, pw) ==
  /\ users[u].isActive
  /\ LET r == comparePassword(users[u], pw, now)
     IN  /\ users' = [users EXCEPT ![u] = r.doc]
         /\ res' = [Response("comparePassword", u, <<>>, 0) EXCEPT
                      !.outcome = r.outcome, !.body = <<pw>>,
                      !.total = users[u].loginAttempts]
         /\ streak' = [streak EXCEPT ![u] =
                         CASE r.outcome = "false" -> @ + 1
                           [] r.outcome = "true"  -> 0
                           [] OTHER               -> @]
  /\ UNCHANGED <<tasks, nextId, now, loaded, ui>>

\* A login request loads the document of an active user (with its password).
LoadUser(p, u) ==
  /\ loaded[p] = <<>>
  /\ users[u].isActive
  /\ loaded' = [loaded EXCEPT ![p] = <<users[u]>>]
  /\ UNCHANGED <<users, tasks, nextId, now, res, streak, ui>>

\* document.save() of a loaded user document: the paths modified since the
\* load are written ($set) over the stored document, the others are left
SaveModified(stored, old, new) ==
  [f \in DOMAIN stored |-> IF new[f] # old[f] THEN new[f] ELSE stored[f]]

\* The login request calls comparePassword on the document it loaded; the
\* saves of the call write the document's modified paths.
CompareLoaded(p, pw) ==
  /\ loaded[p] # <<>>
  /\ LET doc == loaded[p][1]
         u   == doc._id
         r   == comparePassword(doc, pw, now)
     IN  /\ users' = [users EXCEPT ![u] = SaveModified(@, doc, r.doc)]
         /\ res' = [Response("comparePassword", u, <<>>, 0) EXCEPT
                      !.outcome = r.outcome, !.body = <<pw>>,
                      !.total = doc.loginAttempts]
         /\ streak' = [streak EXCEPT ![u] =
                         CASE r.outcome = "false" -> @ + 1
                           [] r.outcome = "true"  -> 0
                           [] OTHER               -> @]
  /\ loaded' = [loaded EXCEPT ![p] = <<>>]
  /\ UNCHANGED <<tasks, nextId, now, ui>>

\* Time passes.
Tick(d) ==
  /\ now + d <= MaxNow
  /\ now' = now + d
  /\ UNCHANGED <<users, tasks, nextId, res, streak, loaded, ui>>

\* The keys of the JSON body of the gate's rejections
GateBody == {"success", "message"}

\* A request to a route behind the gate, up to the gate's decision.
Auth(h) ==
  /\ LET a == auth(h, users, now)
     IN  res' = [Response("auth", NoUser, <<>>, a.status) EXCEPT
                   !.next = a.next, !.reqUser = a.reqUser, !.body = <<h>>,
                   !.fields = IF a.next = 0 THEN GateBody ELSE {}]
  /\ UNCHANGED <<users, tasks, nextId, now, streak, loaded, ui>>

\* A request to a route behind the optional gate.
OptionalAuth(h) ==
  /\ LET a == optionalAuth(h, users, now)
     IN  res' = [Response("optionalAuth", NoUser, <<>>, a.status) EXCEPT
                   !.next = a.next, !.reqUser = a.reqUser, !.body = <<h>>]
  /\ UNCHANGED <<users, tasks, nextId, now, streak, loaded, ui>>

\* ------------------------------------------------ errors and registration

\* An error object: its name, whether the name is a property of its own
\* (copied by { ...err }) or inherited from the prototype, its code, its
\* own statusCode (0 when it has none) and whether it has a message.
Err(name, ownName, code, statusCode, hasMessage) ==
  [ name |-> name, ownName |-> ownName, code |-> code,
    statusCode |-> statusCode, hasMessage |-> hasMessage ]

DUPLICATE_KEY == 11000
\* Multer's codes are strings; they stand here as numbers no other code has.
LIMIT_FILE_SIZE == -2
LIMIT_UNEXPECTED_FILE == -3
\* The error of an insert that breaks the unique index of email
DuplicateKeyError == Err("MongoServerError", FALSE, DUPLICATE_KEY, 0, TRUE)

\* The environments of NODE_ENV
Environments == {"development", "production"}

\* errorHandler(err, req, res, next): [status, error, fields], error the
\* value of the error field and fields the keys of the JSON body
errorHandler(err, env) ==
  LET e0 == [ name       |-> IF err.ownName THEN err.name ELSE "",
              statusCode |-> err.statusCode,
              hasMessage |-> err.hasMessage,
              details    |-> FALSE ]
      e1 == IF err.name = "CastError"
              THEN [name |-> "NotFoundError", statusCode |-> 404,
                    hasMessage |-> TRUE, details |-> FALSE]
              ELSE e0
      e2 == IF err.code = DUPLICATE_KEY
              THEN [name |-> "DuplicateFieldError", statusCode |-> 400,
                    hasMessage |-> TRUE, details |-> FALSE]
              ELSE e1
      e3 == IF err.name = "ValidationError"
              THEN [name |-> "ValidationError", statusCode |-> 400,
                    hasMessage |-> TRUE, details |-> TRUE]
              ELSE e2
      e4 == IF err.name \in {"JsonWebTokenError", "TokenExpiredError"}
              THEN [name |-> "AuthenticationError", statusCode |-> 401,
                    hasMessage |-> TRUE, details |-> FALSE]
              ELSE e3
      e5 == IF err.code = LIMIT_FILE_SIZE
              THEN [name |-> "FileSizeError", statusCode |-> 400,
                    hasMessage |-> TRUE, details |-> FALSE]
              ELSE e4
      e6 == IF err.code = LIMIT_UNEXPECTED_FILE
              THEN [name |-> "FileUploadError", statusCode |-> 400,
                    hasMessage |-> TRUE, details |-> FALSE]
              ELSE e5
  IN  [ status |-> IF e6.statusCode # 0 THEN e6.statusCode ELSE 500,
        error  |-> IF e6.name # "" THEN e6.name ELSE "InternalServerError",
        elided |-> ~e6.hasMessage,
        fields |-> {"success", "message", "error"}
                     \cup (IF env = "development" THEN {"stack"} ELSE {})
                     \cup (IF e6.details THEN {"details"} ELSE {}) ]

\* email: lowercase: true, trim: true. An email is <<form, who>>; the form
\* "EMAIL " is the upper-case spelling with a space around it.
LowerTrim(email) == <<"email", email[2]>>

\* Only the records the find hook lets through are looked at (a variant of
\* EmailTaken that is a query, not the index).
EmailTaken_activeOnly(coll, email) ==
  \E u \in DOMAIN coll : coll[u].isActive /\ coll[u].email = email

\* The unique index of email: it covers every record, active or not
EmailTaken(coll, email) == \E u \in DOMAIN coll : coll[u].email = email

\* The _id of the n-th user record
UserIdOf(n) ==
  CASE n = 1 -> "u1" [] n = 2 -> "u2" [] n = 3 -> "u3" [] OTHER -> "u4"

\* User.create({ name, email, password }): [err, users]; err is <<>> or
\* <<error>>
UserCreate(coll, email, password) ==
  LET id  == UserIdOf(Cardinality(DOMAIN coll) + 1)
      doc == preSavePassword([NewUser(id) EXCEPT !.email = LowerTrim(email),
                                                 !.password = <<password>>],
                             TRUE)
  IN  IF EmailTaken(coll, doc.email)
        THEN [err |-> <<DuplicateKeyError>>, users |-> coll]
        ELSE [err |-> <<>>,
              users |-> [u \in DOMAIN coll \cup {id} |->
                           IF u = id THEN doc ELSE coll[u]]]

\* The emails of the registration attempts
EmailInputs ==
  {<<f, w>> : f \in {"email", "EMAIL "}, w \in {"u1", "u2", "u3", "u4"}}

\* POST /api/auth/register: the record is created, and an error of the
\* store goes to the central error translator.
Register(email, env) ==
  /\ LET r == UserCreate(users, email, "Secret1")
     IN  /\ users' = r.users
         /\ res' = IF r.err = <<>>
                     THEN [Response("register", NoUser, <<>>, 201) EXCEPT
                             !.body = <<email>>]
                     ELSE LET t == errorHandler(r.err[1], env)
                          IN  [Response("register", NoUser, <<>>, t.status) EXCEPT
                                 !.error = t.error, !.fields = t.fields,
                                 !.body = <<email>>]
  /\ UNCHANGED <<tasks, nextId, now, streak, loaded, ui>>

\* The passwords assigned to a loaded user document
NewPasswords == {"Wrong1", "short"}

\* A loaded user document is given a new name and, when pw is <<p>>, the
\* password p, and is saved: the modified paths are validated, then the
\* pre-save hook runs.
SaveUser(u, pw) ==
  /\ u \in DOMAIN users
  /\ LET d1 == [users[u] EXCEPT !.name = <<"name", "renamed">>]
         d2 == IF pw = <<>> THEN d1 ELSE [d1 EXCEPT !.password = pw]
         ok == pw = <<>> \/ PasswordValid(pw[1])
     IN  /\ users' = IF ok THEN [users EXCEPT ![u] = preSavePassword(d2, pw # <<>>)]
                           ELSE users
         /\ res' = [Response("saveUser", u, <<>>, 0) EXCEPT
                      !.outcome = IF ok THEN "saved" ELSE "ValidationError",
                      !.body = pw]
  /\ UNCHANGED <<tasks, nextId, now, streak, loaded, ui>>

\* A call of User.create with an email and a password: the document is
\* validated, hashed by the pre-save hook and inserted.
CreateUser(email, pw) ==
  /\ LET r == IF PasswordValid(pw)
                THEN UserCreate(users, email, pw)
                ELSE [err |-> <<Err("ValidationError", TRUE, 0, 0, TRUE)>>,
                      users |-> users]
     IN  /\ users' = r.users
         /\ res' = [Response("User.create", NoUser, <<>>, 0) EXCEPT
                      !.outcome = IF r.err = <<>> THEN "created" ELSE r.err[1].name,
                      !.body = <<email, pw>>]
  /\ UNCHANGED <<tasks, nextId, now, streak, loaded, ui>>

\* An account is deactivated (isActive set to false).
Deactivate(u) ==
  /\ u \in DOMAIN users
  /\ users[u].isActive
  /\ users' = [users EXCEPT ![u].isActive = FALSE]
  /\ UNCHANGED <<tasks, nextId, now, res, streak, loaded, ui>>

\* --------------------------------------------------- requests to /api/tasks

\* The requests carry no header, or the unexpired token of a user.
TaskHeaders ==
  {NoHeader} \cup {Bearer(Token("jwt", "good", u, 120)) : u \in Users}

\* The bodies of POST /api/tasks: in the access specification the title and
\* the assignee vary, in the listing specification status and priority too,
\* in the store specification status and archival.
AccessBodies ==
  { Body(ti, <<>>, <<>>, as, <<>>) :
      ti \in {<<"Write spec">>, <<"  ">>},
      as \in {<<>>, <<"u2">>, <<UnknownUser>>} }

ListBodies ==
  { Body(<<"Write spec">>, <<"completed">>, <<>>, <<>>, <<>>),
    Body(<<"Write spec">>, <<"completed">>, <<"high">>, <<>>, <<>>),
    Body(<<"Write spec">>, <<>>, <<"high">>, <<"u2">>, <<>>) }

StoreBodies ==
  { Body(ti, st, <<>>, <<>>, ar) :
      ti \in {<<>>, <<"Write spec">>},
      st \in {<<>>, <<"completed">>, <<"bogus">>},
      ar \in {<<>>, <<TRUE>>} }

\* The bodies of POST /api/tasks in the statistics specification: status,
\* due date and assignee vary.
StatsDue == 20
StatsBodies ==
  LET plain == Body(<<"Write spec">>, <<>>, <<>>, <<>>, <<>>)
  IN  { plain,
        Body(<<"Write spec">>, <<"completed">>, <<>>, <<>>, <<>>),
        BodyWith(plain, "dueDate", StatsDue),
        BodyWith(Body(<<"Write spec">>, <<"on-hold">>, <<>>, <<>>, <<>>),
                 "dueDate", StatsDue),
        BodyWith(Body(<<"Write spec">>, <<>>, <<>>, <<"u2">>, <<>>),
                 "dueDate", StatsDue) }

\* The bodies of POST /api/tasks in the progress specification: status and
\* the hours vary; the requests are those of user u1.
ProgressBodies ==
  { [Body(<<"Write spec">>, st, <<>>, <<>>, <<>>) EXCEPT
       !.estimatedHours = es, !.actualHours = ac] :
      st \in {<<>>} \cup {<<x>> : x \in Statuses \ {"pending"}},
      es \in {<<>>, <<8>>, <<10>>},
      ac \in {<<>>, <<1>>, <<5>>, <<15>>} }

\* The bodies of POST /api/tasks with one field missing or out of range, next
\* to bodies with every field in range
PastDue == 20
InvalidBodies ==
  LET plain == Body(<<"Write spec">>, <<>>, <<>>, <<>>, <<>>)
  IN  { plain,
        Body(<<>>, <<>>, <<>>, <<>>, <<>>),
        Body(<<"  ">>, <<>>, <<>>, <<>>, <<>>),
        Body(<<LongTitle>>, <<>>, <<>>, <<>>, <<>>),
        Body(<<"Write spec">>, <<"bogus">>, <<>>, <<>>, <<>>),
        Body(<<"Write spec">>, <<>>, <<"bogus">>, <<>>, <<>>),
        Body(<<"Write spec">>, <<>>, <<>>, <<"u2">>, <<>>),
        Body(<<"Write spec">>, <<>>, <<>>, <<UnknownUser>>, <<>>),
        BodyWith(plain, "dueDate", PastDue),
        BodyWith(plain, "estimatedHours", MAX_HOURS),
        BodyWith(plain, "estimatedHours", MAX_HOURS + 1),
        BodyWith(plain, "estimatedHours", -1),
        BodyWith(plain, "actualHours", MAX_HOURS + 1),
        BodyWith(plain, "actualHours", -1) }

\* The bodies of POST and PUT in the ownership specification: the task may
\* have an assignee, the update may name a creator.
OwnerCreateBodies ==
  { Body(<<"Write spec">>, <<>>, <<>>, as, <<>>) : as \in {<<>>, <<"u2">>} }
OwnerUpdateBodies ==
  { [Body(<<>>, st, <<>>, <<>>, <<>>) EXCEPT !.createdBy = cb] :
      st \in {<<>>, <<"in-progress">>},
      cb \in {<<>>, <<"u1">>, <<"u2">>} }

\* The bodies of POST /api/tasks that name a creator or none
CreatorBodies ==
  { [Body(ti, st, <<>>, <<>>, <<>>) EXCEPT !.createdBy = cb] :
      ti \in {<<>>, <<"Write spec">>},
      st \in {<<>>, <<"completed">>},
      cb \in {<<>>} \cup {<<u>> : u \in Users \cup {UnknownUser}} }

\* Every user's token, and a forged one
CreatorHeaders ==
  {Bearer(Token("jwt", "good", u, 120)) : u \in Users}
  \cup {Bearer(Token("jwt", "bad", "u1", 120))}

ProgressHeaders == {Bearer(Token("jwt", "good", "u1", 120))}

\* The clock's steps in the statistics specification
StatsTicks == {45}

\* The userId of a call of Task.getTaskStats
StatsUserIds == {<<>>} \cup {<<ObjectId(u)>> : u \in Users}

\* The bodies of PUT /api/tasks/:id and the fields assigned before a save
UpdateBodies ==
  { Body(<<>>, st, <<>>, <<>>, ar) :
      st \in {<<>>, <<"completed">>, <<"pending">>},
      ar \in {<<>>, <<FALSE>>} }

Queries ==
  { Query(st, pr, <<>>, <<>>) :
      st \in {<<>>, <<"all">>, <<"completed">>}, pr \in {<<>>, <<"high">>} }
  \cup { Query(<<>>, <<>>, <<2>>, <<1>>), Query(<<"completed">>, <<>>, <<1>>, <<1>>) }

RequestIds == TaskIds \cup {MalformedId}

\* The hex of the user the gate resolved, for the response record
Requester(a) == IF a.reqUser = <<>> THEN NoUser ELSE a.reqUser[1].id.v[1]

\* The response of a request the gate rejected or let through
GateResponse(op, id, a) ==
  [Response(op, Requester(a), id, a.status) EXCEPT
     !.next = a.next, !.reqUser = a.reqUser,
     !.fields = IF a.next = 0 THEN GateBody ELSE {}]

\* The keys of the JSON body a task handler answers with
HandlerBody(op, status) ==
  CASE status >= 400 ->
         {"success", "message"}
           \cup (IF op = "createTask" /\ status = 400 THEN {"errors"} ELSE {})
    [] op \in {"createTask", "updateTask"} -> {"success", "message", "data"}
    [] op = "deleteTask" -> {"success", "message"}
    [] OTHER -> {"success", "data"}

\* GET /api/tasks
GetTasks(h, q) ==
  /\ LET a == auth(h, users, now) IN
       IF a.next = 0
         THEN res' = GateResponse("getTasks", <<>>, a)
         ELSE LET r == getTasks(a.reqUser[1], q, tasks)
              IN  res' = [GateResponse("getTasks", <<>>, a) EXCEPT
                            !.status = r.status, !.tasks = r.tasks,
                            !.total = r.total, !.body = <<q>>,
                            !.stats = <<[totalPages |-> r.totalPages]>>,
                            !.fields = HandlerBody("getTasks", r.status)]
  /\ UNCHANGED <<users, tasks, nextId, now, streak, loaded, ui>>

\* GET /api/tasks/:id
GetTask(h, id) ==
  /\ LET a == auth(h, users, now) IN
       IF a.next = 0
         THEN res' = GateResponse("getTask", id, a)
         ELSE LET r == getTask(a.reqUser[1], id, tasks, users)
              IN  res' = [GateResponse("getTask", id, a) EXCEPT
                            !.status = r.status, !.tasks = r.tasks,
                            !.fields = HandlerBody("getTask", r.status)]
  /\ UNCHANGED <<users, tasks, nextId, now, streak, loaded, ui>>

\* POST /api/tasks
CreateTask(h, body) ==
  /\ nextId <= MaxTasks
  /\ LET a == auth(h, users, now) IN
       IF a.next = 0
         THEN /\ res' = GateResponse("createTask", <<>>, a)
              /\ UNCHANGED <<users, tasks, nextId>>
         ELSE LET r == createTask(a.reqUser[1], body, tasks, users, nextId, now)
              IN  /\ WithinCompleted(r.users)
                  /\ res' = [GateResponse("createTask", <<>>, a) EXCEPT
                               !.status = r.status, !.tasks = r.tasks,
                               !.body = <<body>>,
                               !.fields = HandlerBody("createTask", r.status)]
                  /\ tasks' = r.store
                  /\ users' = r.users
                  /\ nextId' = IF r.status = 201 THEN nextId + 1 ELSE nextId
  /\ UNCHANGED <<now, streak, loaded, ui>>

\* PUT /api/tasks/:id
UpdateTask(h, id, body) ==
  /\ LET a == auth(h, users, now) IN
       IF a.next = 0
         THEN /\ res' = GateResponse("updateTask", id, a)
              /\ UNCHANGED tasks
         ELSE LET r == updateTask(a.reqUser[1], id, body, tasks, users, now)
              IN  /\ res' = [GateResponse("updateTask", id, a) EXCEPT
                               !.status = r.status, !.tasks = r.tasks,
                               !.body = <<body>>,
                               !.fields = HandlerBody("updateTask", r.status)]
                  /\ tasks' = r.store
  /\ UNCHANGED <<users, nextId, now, streak, loaded, ui>>

\* DELETE /api/tasks/:id
DeleteTask(h, id) ==
  /\ LET a == auth(h, users, now) IN
       IF a.next = 0
         THEN /\ res' = GateResponse("deleteTask", id, a)
              /\ UNCHANGED tasks
         ELSE LET r == deleteTask(a.reqUser[1], id, tasks, users)
              IN  /\ res' = [GateResponse("deleteTask", id, a) EXCEPT
                               !.status = r.status,
                               !.fields = HandlerBody("deleteTask", r.status)]
                  /\ tasks' = r.store
  /\ UNCHANGED <<users, nextId, now, streak, loaded, ui>>

\* GET /api/tasks/stats/overview
GetTaskStats(h) ==
  /\ LET a == auth(h, users, now) IN
       IF a.next = 0
         THEN res' = GateResponse("getTaskStats", <<>>, a)
         ELSE LET r == getTaskStats(a.reqUser[1], tasks, now)
              IN  res' = [GateResponse("getTaskStats", <<>>, a) EXCEPT
                            !.status = r.status, !.stats = <<r.stats>>,
                            !.fields = HandlerBody("getTaskStats", r.status)]
  /\ UNCHANGED <<users, tasks, nextId, now, streak, loaded, ui>>

\* A call of Task.getTaskStats(userId) with the id of a user, or with null
TaskStats(userId) ==
  /\ res' = [Response("Task.getTaskStats",
                      IF userId = <<>> THEN NoUser ELSE userId[1].v[1], <<>>, 0)
               EXCEPT !.stats = TaskGetTaskStats(userId, tasks, now)]
  /\ UNCHANGED <<users, tasks, nextId, now, streak, loaded, ui>>

\* A request to a path no route matches: the server's 404 handler
RouteNotFound ==
  /\ res' = [Response("notFound", NoUser, <<>>, 404) EXCEPT
               !.fields = {"success", "message"}]
  /\ UNCHANGED <<users, tasks, nextId, now, streak, loaded, ui>>

\* An error reaches the server's own error handler (a body express.json()
\* cannot parse does): status 500 whatever the error
ServerError(err, env) ==
  /\ res' = [Response("serverError", NoUser, <<>>, 500) EXCEPT
               !.error = IF env = "development" /\ err.hasMessage
                           THEN "err.message" ELSE "{}",
               !.fields = {"success", "message", "error"},
               !.body = <<err, env>>]
  /\ UNCHANGED <<users, tasks, nextId, now, streak, loaded, ui>>

\* The errors handed to the error handlers
ErrorInputs ==
  { Err("CastError", TRUE, 0, 0, TRUE),
    DuplicateKeyError,
    Err("ValidationError", TRUE, 0, 0, TRUE),
    Err("TokenExpiredError", TRUE, 0, 0, TRUE),
    Err("MulterError", TRUE, LIMIT_FILE_SIZE, 0, TRUE),
    Err("SyntaxError", FALSE, 0, 400, TRUE),
    Err("Error", FALSE, 0, 0, TRUE),
    Err("Error", FALSE, 0, 0, FALSE) }

\* errorHandler is called with an error
ErrorHandler(err, env) ==
  /\ LET t == errorHandler(err, env)
     IN  res' = [Response("errorHandler", NoUser, <<>>, t.status) EXCEPT
                   !.error = t.error, !.fields = t.fields,
                   !.outcome = IF t.elided THEN "Server Error" ELSE "err.message",
                   !.body = <<err, env>>]
  /\ UNCHANGED <<users, tasks, nextId, now, streak, loaded, ui>>

\* ---------------------------------------------------------------- front end

\* The route renders its children without waiting for loading (a variant of
\* ProtectedRoute without its first test).
ProtectedRoute_noSpinner(ctx, requireAuth) ==
  CASE requireAuth /\ ctx.user = "null"    -> "/login"
    [] ~requireAuth /\ ctx.user # "null"   -> "/"
    [] OTHER                                -> "children"

\* ProtectedRoute({ children, requireAuth }): what it renders for the user
\* and loading of the context
ProtectedRoute(ctx, requireAuth) ==
  CASE ctx.loading                         -> "spinner"
    [] requireAuth /\ ctx.user = "null"    -> "/login"
    [] ~requireAuth /\ ctx.user # "null"   -> "/"
    [] OTHER                                -> "children"

\* useEffect(() => initializeAuth(), []): without a token loading ends; with
\* one, getMe is awaited
InitializeAuth ==
  /\ ui.call = "initializeAuth"
  /\ ui' = IF ui.token THEN [ui EXCEPT !.call = "getMe"]
                       ELSE [ui EXCEPT !.loading = FALSE, !.call = "none"]
  /\ UNCHANGED <<users, tasks, nextId, now, res, streak, loaded>>

\* getMe answers with the user, or fails (<<>>) and the token is removed
GetMeReturns(r) ==
  /\ ui.call = "getMe"
  /\ ui' = IF r # <<>>
             THEN [ui EXCEPT !.user = r[1], !.loading = FALSE, !.call = "none"]
             ELSE [ui EXCEPT !.token = FALSE, !.loading = FALSE, !.call = "none"]
  /\ UNCHANGED <<users, tasks, nextId, now, res, streak, loaded>>

\* login(email, password) from the login page, which a route with
\* requireAuth false shows: loading is set and the request is awaited
Login ==
  /\ ui.call = "none"
  /\ ProtectedRoute(ui, FALSE) = "children"
  /\ ui' = [ui EXCEPT !.loading = TRUE, !.call = "login"]
  /\ UNCHANGED <<users, tasks, nextId, now, res, streak, loaded>>

\* The login request answers with token and user, or fails (<<>>)
LoginReturns(r) ==
  /\ ui.call = "login"
  /\ ui' = IF r # <<>>
             THEN [ui EXCEPT !.token = TRUE, !.user = r[1],
                             !.loading = FALSE, !.call = "none"]
             ELSE [ui EXCEPT !.loading = FALSE, !.call = "none"]
  /\ UNCHANGED <<users, tasks, nextId, now, res, streak, loaded>>

\* updateProfile(profileData) from a page behind a protected route
UpdateProfile ==
  /\ ui.call = "none"
  /\ ProtectedRoute(ui, TRUE) = "children"
  /\ ui' = [ui EXCEPT !.loading = TRUE, !.call = "updateProfile"]
  /\ UNCHANGED <<users, tasks, nextId, now, res, streak, loaded>>

\* The profile request answers with the user, or fails (<<>>)
UpdateProfileReturns(r) ==
  /\ ui.call = "updateProfile"
  /\ ui' = IF r # <<>>
             THEN [ui EXCEPT !.user = r[1], !.loading = FALSE, !.call = "none"]
             ELSE [ui EXCEPT !.loading = FALSE, !.call = "none"]
  /\ UNCHANGED <<users, tasks, nextId, now, res, streak, loaded>>

\* refreshUser() from a page behind a protected route: getMe is awaited
\* without loading being set
RefreshUser ==
  /\ ui.call = "none"
  /\ ProtectedRoute(ui, TRUE) = "children"
  /\ ui' = [ui EXCEPT !.call = "refreshUser"]
  /\ UNCHANGED <<users, tasks, nextId, now, res, streak, loaded>>

\* getMe answers with the user, or fails (<<>>) and the user is logged out
RefreshUserReturns(r) ==
  /\ ui.call = "refreshUser"
  /\ ui' = IF r # <<>>
             THEN [ui EXCEPT !.user = r[1], !.call = "none"]
             ELSE [ui EXCEPT !.token = FALSE, !.user = "null", !.call = "none"]
  /\ UNCHANGED <<users, tasks, nextId, now, res, streak, loaded>>

\* logout() from a page behind a protected route
Logout ==
  /\ ui.call = "none"
  /\ ProtectedRoute(ui, TRUE) = "children"
  /\ ui' = [ui EXCEPT !.token = FALSE, !.user = "null"]
  /\ UNCHANGED <<users, tasks, nextId, now, res, streak, loaded>>

\* The page is loaded again: the provider is mounted anew, localStorage stays
Reload ==
  /\ ui' = [AuthProvider EXCEPT !.token = ui.token]
  /\ UNCHANGED <<users, tasks, nextId, now, res, streak, loaded>>

\* A route wrapped in ProtectedRoute is rendered
Render(requireAuth) ==
  /\ res' = [Response("ProtectedRoute", ui.user, <<>>, 0) EXCEPT
               !.outcome = ProtectedRoute(ui, requireAuth),
               !.body = <<[requireAuth |-> requireAuth, loading |-> ui.loading,
                           user |-> ui.user]>>]
  /\ UNCHANGED <<users, tasks, nextId, now, streak, loaded, ui>>

\* ------------------------------------------ operations on a task document

\* The paths whose value differs between two versions of a document
ModifiedPaths(old, new) == {f \in DOMAIN old : old[f] # new[f]}

\* Commit of a document.save(): the store, the counters, the response
Saved(op, id, r) ==
  /\ WithinCompleted(r.users)
  /\ tasks' = r.tasks
  /\ users' = r.users
  /\ res' = [Response(op, NoUser, id, 0) EXCEPT
               !.outcome = IF r.ok THEN "saved" ELSE "ValidationError"]
  /\ UNCHANGED <<nextId, now, streak, loaded, ui>>

\* taskSchema.methods.archive
Archive(id) ==
  /\ id \in DOMAIN tasks
  /\ LET doc == [tasks[id] EXCEPT !.isArchived = TRUE, !.archivedAt = now]
     IN  Saved("archive", id,
               save(tasks, users, doc, ModifiedPaths(tasks[id], doc), now))

\* taskSchema.methods.unarchive
Unarchive(id) ==
  /\ id \in DOMAIN tasks
  /\ LET doc == [tasks[id] EXCEPT !.isArchived = FALSE, !.archivedAt = NoDate]
     IN  Saved("unarchive", id,
               save(tasks, users, doc, ModifiedPaths(tasks[id], doc), now))

\* Fields of a loaded document are assigned and the document is saved.
SaveTask(id, fields) ==
  /\ id \in DOMAIN tasks
  /\ LET doc == [tasks[id] EXCEPT
                   !.status     = IF fields.status = <<>> THEN @ ELSE fields.status[1],
                   !.priority   = IF fields.priority = <<>> THEN @ ELSE fields.priority[1],
                   !.isArchived = IF fields.isArchived = <<>> THEN @ ELSE fields.isArchived[1]]
     IN  Saved("save", id,
               save(tasks, users, doc, ModifiedPaths(tasks[id], doc), now))

Init ==
  /\ users = [u \in Users |-> NewUser(u)]
  /\ tasks = <<>>
  /\ nextId = 1
  /\ now = 0
  /\ res = NoResponse
  /\ streak = [u \in Users |-> 0]
  /\ loaded = [p \in Procs |-> <<>>]
  /\ ui = AuthProvider

NextCred ==
  \/ \E u \in Users, pw \in Passwords : ComparePassword(u, pw)
  \/ \E d \in TickSteps : Tick(d)

SpecCred == Init /\ [][NextCred]_vars

NextGate ==
  \/ \E h \in Headers : Auth(h)
  \/ \E h \in Headers : OptionalAuth(h)
  \/ \E u \in Users : Deactivate(u)
  \/ \E d \in TickSteps : Tick(d)

SpecGate == Init /\ [][NextGate]_vars

\* The task handlers that read or write one task, behind the gate.
NextTasks ==
  \/ \E h \in TaskHeaders, b \in AccessBodies : CreateTask(h, b)
  \/ \E h \in TaskHeaders, id \in RequestIds : GetTask(h, id)
  \/ \E h \in TaskHeaders, id \in RequestIds, b \in UpdateBodies : UpdateTask(h, id, b)
  \/ \E h \in TaskHeaders, id \in RequestIds : DeleteTask(h, id)
  \/ \E id \in TaskIds : Archive(id)
  \/ \E u \in Users : Deactivate(u)

SpecTasks == Init /\ [][NextTasks]_vars

\* The listing of tasks.
NextList ==
  \/ \E h \in TaskHeaders, b \in ListBodies : CreateTask(h, b)
  \/ \E h \in TaskHeaders, q \in Queries : GetTasks(h, q)
  \/ \E id \in TaskIds : Archive(id)

SpecList == Init /\ [][NextList]_vars

\* The writes to the task store.
NextStore ==
  \/ \E h \in TaskHeaders, b \in StoreBodies : CreateTask(h, b)
  \/ \E h \in TaskHeaders, id \in RequestIds, b \in UpdateBodies : UpdateTask(h, id, b)
  \/ \E id \in TaskIds : Archive(id)
  \/ \E id \in TaskIds : Unarchive(id)
  \/ \E id \in TaskIds, b \in UpdateBodies : SaveTask(id, b)

SpecStore == Init /\ [][NextStore]_vars

\* Registrations.
NextReg ==
  \/ \E email \in EmailInputs, env \in Environments : Register(email, env)
  \/ \E u \in Users \cup {"u3", "u4"} : Deactivate(u)
  \/ \E d \in TickSteps : Tick(d)

SpecReg == Init /\ [][NextReg]_vars

\* Task documents with their hours.
NextProgress ==
  \E h \in ProgressHeaders, b \in ProgressBodies : CreateTask(h, b)

SpecProgress == Init /\ [][NextProgress]_vars

\* The task statistics.
NextCreate ==
  \E h \in CreatorHeaders, b \in CreatorBodies : CreateTask(h, b)

SpecCreate == Init /\ [][NextCreate]_vars

NextInvalid ==
  \/ \E h \in TaskHeaders, b \in InvalidBodies : CreateTask(h, b)
  \/ \E u \in Users : Deactivate(u)
  \/ \E d \in TickSteps : Tick(d)

SpecInvalid == Init /\ [][NextInvalid]_vars

\* The answers of the API to requests it refuses or fails.
NextErrors ==
  \/ \E h \in TaskHeaders, b \in InvalidBodies : CreateTask(h, b)
  \/ \E h \in TaskHeaders, id \in RequestIds : GetTask(h, id)
  \/ \E h \in TaskHeaders, id \in RequestIds, b \in UpdateBodies : UpdateTask(h, id, b)
  \/ \E h \in TaskHeaders, id \in RequestIds : DeleteTask(h, id)
  \/ RouteNotFound
  \/ \E e \in ErrorInputs, env \in Environments : ServerError(e, env)
  \/ \E e \in ErrorInputs, env \in Environments : ErrorHandler(e, env)

SpecErrors == Init /\ [][NextErrors]_vars

\* The saves of user documents: registration, logins, edits.
NextPassword ==
  \/ \E w \in {"u1", "u3"}, pw \in {"Secret1", "short"} :
        CreateUser(<<"email", w>>, pw)
  \/ \E u \in {"u1", "u3"}, pw \in {<<>>} \cup {<<p>> : p \in NewPasswords} :
        SaveUser(u, pw)
  \/ \E pw \in Passwords : ComparePassword("u1", pw)

SpecPassword == Init /\ [][NextPassword]_vars

\* Updates and deletions by the creator, the assignee and others.
NextOwner ==
  \/ \E h \in TaskHeaders, b \in OwnerCreateBodies : CreateTask(h, b)
  \/ \E h \in TaskHeaders, id \in TaskIds, b \in OwnerUpdateBodies :
        UpdateTask(h, id, b)
  \/ \E h \in TaskHeaders, id \in TaskIds : DeleteTask(h, id)

SpecOwner == Init /\ [][NextOwner]_vars

\* Login requests for one account that interleave.
NextLogin ==
  \/ \E p \in Procs : LoadUser(p, "u1")
  \/ \E p \in Procs, pw \in Passwords : CompareLoaded(p, pw)

SpecLogin == Init /\ [][NextLogin]_vars

\* The front end's authentication state and the routes it guards.
NextRoute ==
  \/ InitializeAuth
  \/ \E r \in {<<>>} \cup {<<u>> : u \in Users} : GetMeReturns(r)
  \/ Login
  \/ \E r \in {<<>>} \cup {<<u>> : u \in Users} : LoginReturns(r)
  \/ UpdateProfile
  \/ \E r \in {<<>>, <<ui.user>>} : UpdateProfileReturns(r)
  \/ RefreshUser
  \/ \E r \in {<<>>, <<ui.user>>} : RefreshUserReturns(r)
  \/ Logout
  \/ Reload
  \/ \E requireAuth \in BOOLEAN : Render(requireAuth)

SpecRoute == Init /\ [][NextRoute]_vars

NextStats ==
  \/ \E h \in TaskHeaders, b \in StatsBodies : CreateTask(h, b)
  \/ \E h \in TaskHeaders : GetTaskStats(h)
  \/ \E userId \in StatsUserIds : TaskStats(userId)
  \/ \E id \in TaskIds : Archive(id)
  \/ \E d \in StatsTicks : Tick(d)

SpecStats == Init /\ [][NextStats]_vars

\* =================================================================== claims

\* C1: the comparePassword call that is the 5th consecutive one with a wrong
\* password sets lockUntil 30 minutes after the time of the call, and every
\* comparePassword call made while lockUntil is in the future ends with the
\* account-locked error and changes nothing, whatever the password.
C1_LockAfterFiveFailures ==
  [][\A u \in Users, pw \in Passwords :
       ComparePassword(u, pw) =>
         /\ (streak[u] = 4 /\ streak'[u] = 5) =>
              /\ users'[u].lockUntil = now + LOCK_MINUTES
              /\ isLocked(users'[u], now')
         /\ isLocked(users[u], now) =>
              /\ res'.outcome = "locked"
              /\ users'[u] = users[u]]_vars

\* C1 witness: after five consecutive failures the correct password was
\* refused with the account-locked error.
C1_Witness ==
  /\ res.op = "comparePassword"
  /\ res.outcome = "locked"
  /\ res.body = <<PasswordOf(res.user)>>
  /\ streak[res.user] = 5
  /\ users[res.user].loginAttempts = 5

\* completedAt is set exactly on the completed tasks of the store
CompletedAtIffCompleted ==
  \A id \in DOMAIN tasks :
    (tasks[id].completedAt # NoDate) <=> (tasks[id].status = "completed")

\* The user a request of /api/tasks is authenticated as: the token's user,
\* when active (the tokens of TaskHeaders are well signed and unexpired).
Authenticated(h) ==
  h.kind = "bearer" /\ h.token.userId \in Users /\ users[h.token.userId].isActive

IsMember(u, task) == u = task.createdBy \/ u = task.assignedTo

\* C2 (as claimed): completedAt is non-null exactly when status is
\* 'completed' in every state of the store, and a PUT /api/tasks/:id by the
\* creator or the assignee of a task that sets status leaves the task with
\* that status and with completedAt non-null exactly when it is 'completed'.
C2_CompletedAtFollowsStatus ==
  /\ []CompletedAtIffCompleted
  /\ [][\A h \in TaskHeaders, id \in TaskIds, b \in UpdateBodies :
         ( /\ UpdateTask(h, id, b) /\ Authenticated(h)
           /\ NotArchived(tasks, id) /\ IsMember(h.token.userId, tasks[id])
           /\ ActiveOnly(users, tasks[id].createdBy)
           /\ b.status # <<>> ) =>
             /\ id \in DOMAIN tasks'
             /\ tasks'[id].status = b.status[1]
             /\ (tasks'[id].completedAt # NoDate) <=> (b.status[1] = "completed")]_vars

\* C3 (as claimed): archivedAt is non-null exactly when isArchived is true.
C3_ArchivedAtIffArchived ==
  \A id \in DOMAIN tasks :
    (tasks[id].archivedAt # NoDate) <=> tasks[id].isArchived

\* C4 (as claimed): getTask answers an authenticated requester 404 when the
\* id matches no task, and 403 without the task when the requester is
\* neither the creator nor the assignee of the task.
C4_GetTaskForbiddenOrNotFound ==
  [][\A h \in TaskHeaders, id \in RequestIds :
       (GetTask(h, id) /\ Authenticated(h)) =>
         /\ id \notin DOMAIN tasks => res'.status = 404
         /\ (NotArchived(tasks, id) /\ ~IsMember(h.token.userId, tasks[id])) =>
              (res'.status = 403 /\ res'.tasks = <<>>)]_vars

\* C5 (as claimed): getTask answers the creator and the assignee of a task,
\* authenticated by the gate, 200 with the task as stored at its creation.
C5_GetTaskReturnsToMembers ==
  [][\A h \in TaskHeaders, id \in TaskIds :
       ( /\ GetTask(h, id) /\ Authenticated(h)
         /\ NotArchived(tasks, id) /\ IsMember(h.token.userId, tasks[id])
         /\ ActiveOnly(users, tasks[id].createdBy) ) =>
           (res'.status = 200 /\ res'.tasks = <<tasks[id]>>)]_vars

\* C6 (as claimed): deleteTask by the creator answers 200 and removes the
\* task; by anyone else it answers 403 and leaves the store as it was.
C6_DeleteOnlyByCreator ==
  [][\A h \in TaskHeaders, id \in TaskIds :
       ( /\ DeleteTask(h, id) /\ Authenticated(h)
         /\ NotArchived(tasks, id)
         /\ ActiveOnly(users, tasks[id].createdBy) ) =>
           IF h.token.userId = tasks[id].createdBy
             THEN res'.status = 200 /\ id \notin DOMAIN tasks'
             ELSE res'.status = 403 /\ tasks' = tasks]_vars

\* C7 (as claimed): updateTask answers 404 for an id that matches no task
\* and 403 to a requester who is neither creator nor assignee, and in both
\* cases leaves every task as it was.
C7_UpdateRejectedLeavesStore ==
  [][\A h \in TaskHeaders, id \in RequestIds, b \in UpdateBodies :
       (UpdateTask(h, id, b) /\ Authenticated(h)) =>
         /\ id \notin DOMAIN tasks => (res'.status = 404 /\ tasks' = tasks)
         /\ (NotArchived(tasks, id) /\ ~IsMember(h.token.userId, tasks[id])) =>
              (res'.status = 403 /\ tasks' = tasks)]_vars

\* A header that carries a bearer token that verifies at time t and whose
\* user id is that of an existing active user
GoodCredential(h, coll, t) ==
  /\ h.kind = "bearer"
  /\ h.token.form = "jwt" /\ h.token.sig = "good" /\ t < h.token.exp
  /\ h.token.userId \in DOMAIN coll
  /\ coll[h.token.userId].isActive

\* req.user holds the id, name, email and role of user u
HoldsIdentity(reqUser, u) ==
  /\ reqUser # <<>>
  /\ reqUser[1].id = ObjectId(u)
  /\ reqUser[1].name = users[u].name
  /\ reqUser[1].email = users[u].email
  /\ reqUser[1].role = users[u].role

C9_OptionalGateNeverRejects ==
  [][\A h \in Headers :
       OptionalAuth(h) =>
         /\ res'.next = 1 /\ res'.status = 0
         /\ IF GoodCredential(h, users, now)
              THEN HoldsIdentity(res'.reqUser, h.token.userId)
              ELSE res'.reqUser = <<>>]_vars

\* C9 witness: an expired token went through the optional gate: next was
\* called, no response was sent and req.user was left unset.
C9_Witness ==
  /\ res.op = "optionalAuth" /\ res.next = 1 /\ res.status = 0
  /\ res.reqUser = <<>>
  /\ res.body[1].kind = "bearer"
  /\ res.body[1].token.form = "jwt" /\ res.body[1].token.sig = "good"
  /\ now >= res.body[1].token.exp

\* C10: every task in a getTasks response has the requester as creator or
\* assignee, has the status and the priority asked for when one is given and
\* is not 'all', and is not archived.
C10_ListOnlyOwnMatchingUnarchived ==
  (res.op = "getTasks" /\ res.next = 1) =>
    \A i \in 1..Len(res.tasks) :
      LET task == res.tasks[i]
          q    == res.body[1]
      IN  /\ IsMember(res.user, task)
          /\ (q.status # <<>> /\ q.status[1] # "all") => task.status = q.status[1]
          /\ (q.priority # <<>> /\ q.priority[1] # "all") => task.priority = q.priority[1]
          /\ ~task.isArchived

\* C10 witness: two completed tasks of the requester match the filter, one
\* of them is archived, and the first page holds only the other one.
C10_Witness ==
  /\ res.op = "getTasks" /\ res.status = 200
  /\ res.body[1].status = <<"completed">> /\ res.body[1].page = <<>>
  /\ res.total = 2 /\ Len(res.tasks) = 1
  /\ \E id \in DOMAIN tasks : tasks[id].isArchived /\ IsMember(res.user, tasks[id])

\* The tasks of user u that are not archived
OwnUnarchived(u) ==
  {id \in DOMAIN tasks : IsMember(u, tasks[id]) /\ ~tasks[id].isArchived}

\* C11 (as claimed): the statistics of GET /api/tasks/stats/overview count
\* exactly the requester's unarchived tasks: the total, every per-status
\* count and the overdue count leave archived tasks out.
C11_StatsLeaveOutArchived ==
  [][\A h \in TaskHeaders :
       (GetTaskStats(h) /\ Authenticated(h)) =>
         LET own   == OwnUnarchived(h.token.userId)
             stats == res'.stats[1]
         IN  /\ res'.status = 200
             /\ stats["total"] = Cardinality(own)
             /\ \A st \in Statuses \cap DOMAIN stats :
                  stats[st] = Cardinality({id \in own : tasks[id].status = st})
             /\ stats["overdue"] <=
                  Cardinality({id \in own : isOverdue(tasks[id], now)})]_vars

\* C12 (as claimed): every call of Task.getTaskStats yields a statistics
\* record, whose completionRate is 0 when no task matches and
\* completed / total * 100 rounded to the hundredths otherwise.
C12_CompletionRate ==
  [][\A userId \in StatsUserIds :
       TaskStats(userId) =>
         /\ res'.stats # <<>>
         /\ LET r == res'.stats[1]
                diff == r.completionRate * r.totalTasks - r.completedTasks * 10000
            IN  IF r.totalTasks = 0
                  THEN r.completionRate = 0
                  ELSE /\ 2 * diff <= r.totalTasks
                       /\ -2 * diff <= r.totalTasks]_vars

\* C18 (as claimed): the overdue count of the statistics is the number of
\* the requester's tasks whose derived isOverdue is true (due date passed,
\* status pending, in-progress or on-hold); stated for stores without
\* archived tasks, which are the subject of C11.
C18_OverdueCountsIsOverdue ==
  [][\A h \in TaskHeaders :
       ( /\ GetTaskStats(h) /\ Authenticated(h)
         /\ \A id \in DOMAIN tasks : ~tasks[id].isArchived ) =>
         res'.stats[1]["overdue"] =
           Cardinality({id \in OwnUnarchived(h.token.userId) :
                          isOverdue(tasks[id], now)})]_vars

\* No two user records share an email.
EmailsUnique ==
  \A u, v \in DOMAIN users : users[u].email = users[v].email => u = v

BecomesCompleted(id) ==
  /\ id \notin DOMAIN tasks \/ tasks[id].status # "completed"
  /\ id \in DOMAIN tasks' /\ tasks'[id].status = "completed"

\* The creator's statistics.tasksCompleted goes up by exactly 1 in this step.
CreatorCounted(id) ==
  LET c == tasks'[id].createdBy
  IN  users'[c].tasksCompleted = users[c].tasksCompleted + 1

\* C14 (as claimed): every step that takes a task from a status other than
\* completed to completed, by creation or by a save, adds exactly 1 to the
\* creator's tasksCompleted; and so does a PUT /api/tasks/:id with status
\* completed by the creator or the assignee of a task that is not completed.
C14_CompletionCounted ==
  /\ [][\A id \in TaskIds : BecomesCompleted(id) => CreatorCounted(id)]_vars
  /\ [][\A h \in TaskHeaders, id \in TaskIds, b \in UpdateBodies :
         ( /\ UpdateTask(h, id, b) /\ Authenticated(h)
           /\ NotArchived(tasks, id) /\ IsMember(h.token.userId, tasks[id])
           /\ ActiveOnly(users, tasks[id].createdBy)
           /\ b.status = <<"completed">> /\ tasks[id].status # "completed" ) =>
             (BecomesCompleted(id) /\ CreatorCounted(id))]_vars

\* p is the progress the claim gives a document: 100 when completed, 0 when
\* cancelled, the ratio of the hours in percent, rounded to the nearest
\* integer and capped at 100, when both hours are positive, and the default
\* of the status otherwise.
ClaimedProgress(doc, p) ==
  LET a == doc.actualHours
      e == doc.estimatedHours
      d == p * e - 100 * a
  IN  /\ p \in 0..100
      /\ CASE doc.status = "completed" -> p = 100
            [] doc.status = "cancelled" -> p = 0
            [] a > 0 /\ e > 0 ->
                 IF 200 * a >= 199 * e
                   THEN p = 100
                   ELSE 2 * d <= e /\ -2 * d <= e
            [] doc.status = "in-progress" -> p = 50
            [] doc.status = "on-hold" -> p = 25
            [] OTHER -> p = 0

\* C15: the derived progress of every stored task is the one the claim
\* gives, an integer in 0..100.
C15_ProgressOfEveryTask ==
  \A id \in DOMAIN tasks : ClaimedProgress(tasks[id], progress(tasks[id]))

\* C15 witness: one task on hold with 5 of 10 hours done has progress 50
\* (not the 25 of its status), another, in progress with 15 of 10 hours, has
\* progress 100.
C15_Witness ==
  /\ \E id \in DOMAIN tasks :
       /\ tasks[id].status = "on-hold"
       /\ tasks[id].estimatedHours = 10 /\ tasks[id].actualHours = 5
       /\ progress(tasks[id]) = 50
  /\ \E id \in DOMAIN tasks :
       /\ tasks[id].status = "in-progress"
       /\ tasks[id].estimatedHours = 10 /\ tasks[id].actualHours = 15
       /\ progress(tasks[id]) = 100

\* C16: the task a POST /api/tasks creates is stored and returned with the
\* requester as its createdBy, whatever createdBy the body carries.
C16_CreatorIsRequester ==
  [][(res'.op = "createTask" /\ res'.status = 201 /\ nextId' = nextId + 1) =>
       /\ TaskIdOf(nextId) \in DOMAIN tasks' \ DOMAIN tasks
       /\ tasks'[TaskIdOf(nextId)].createdBy = res'.reqUser[1].id.v[1]
       /\ res'.tasks[1].createdBy = res'.reqUser[1].id.v[1]]_vars

\* C16 witness: u1 posted a task whose body named u2 as the creator; the
\* task was created with u1 as its createdBy.
C16_Witness ==
  /\ res.op = "createTask" /\ res.status = 201
  /\ res.reqUser # <<>> /\ res.reqUser[1].id.v[1] = "u1"
  /\ res.body[1].createdBy = <<"u2">>
  /\ res.tasks[1].createdBy = "u1"
  /\ res.tasks[1]._id \in DOMAIN tasks
  /\ tasks[res.tasks[1]._id].createdBy = "u1"

\* A body of createTask with a field missing or out of range, at time t
\* and with the users of coll: the cases the claim lists.
InvalidCreate(body, coll, t) ==
  \/ body.title = <<>>
  \/ Trim(body.title[1]) = ""
  \/ TitleLength(Trim(body.title[1])) > MAX_TITLE
  \/ body.status # <<>> /\ body.status[1] \notin Statuses
  \/ body.priority # <<>> /\ body.priority[1] \notin Priorities
  \/ \E f \in {"estimatedHours", "actualHours"} :
        body[f] # <<>> /\ ~(0 <= body[f][1] /\ body[f][1] <= MAX_HOURS)
  \/ body.dueDate # <<>> /\ body.dueDate[1] <= t
  \/ /\ body.assignedTo # <<>>
     /\ ~(body.assignedTo[1] \in DOMAIN coll /\ coll[body.assignedTo[1]].isActive)

\* C17: every createTask request that passed the gate with a field missing
\* or out of range is answered with status 400 and creates no task record.
C17_InvalidCreateIs400 ==
  [][(res' # res /\ res'.op = "createTask" /\ res'.next = 1
        /\ InvalidCreate(res'.body[1], users, now)) =>
       (res'.status = 400 /\ tasks' = tasks)]_vars

\* C19: a comparePassword call with the correct password on an account that
\* is not locked returns true and leaves loginAttempts 0, lockUntil null and
\* lastLogin at the time of the call.
C19_SuccessResets ==
  [][(now' = now /\ res'.op = "comparePassword"
        /\ res'.body = <<PasswordOf(res'.user)>>
        /\ ~isLocked(users[res'.user], now)) =>
       /\ res'.outcome = "true"
       /\ users'[res'.user].loginAttempts = 0
       /\ users'[res'.user].lockUntil = NoDate
       /\ users'[res'.user].lastLogin = now]_vars

\* C19 witness: a correct password after the lock of MAX_ATTEMPTS failures
\* ran out: the call returned true and the counter and the lock are cleared.
C19_Witness ==
  /\ res.op = "comparePassword" /\ res.outcome = "true"
  /\ res.body = <<PasswordOf(res.user)>>
  /\ res.total >= MAX_ATTEMPTS
  /\ users[res.user].loginAttempts = 0
  /\ users[res.user].lockUntil = NoDate
  /\ users[res.user].lastLogin = now /\ now > 0

\* C20: every error response of the API has the fields success, message and
\* error.
C20_ErrorShape ==
  res.status >= 400 => {"success", "message", "error"} \subseteq res.fields

\* An error that matches none of the kinds errorHandler maps
Unmapped(err) ==
  /\ err.name \notin {"CastError", "ValidationError", "JsonWebTokenError",
                      "TokenExpiredError"}
  /\ err.code \notin {DUPLICATE_KEY, LIMIT_FILE_SIZE, LIMIT_UNEXPECTED_FILE}

\* C21: errorHandler answers an error of none of its mapped kinds with status
\* 500, and in production with a generic message, not the error's own.
C21_UnmappedIsGeneric500 ==
  (res.op = "errorHandler" /\ Unmapped(res.body[1])) =>
    /\ res.status = 500
    /\ res.body[2] = "production" => res.outcome = "Server Error"

\* The number of the tasks user u created or is assigned that are in status st
OwnInStatus(u, st) ==
  Cardinality({id \in DOMAIN tasks :
                 /\ tasks[id].createdBy = u \/ tasks[id].assignedTo = u
                 /\ tasks[id].status = st})

\* The sum of the values of f over the keys in S
RECURSIVE SumOver(_, _)
SumOver(f, S) ==
  IF S = {} THEN 0
  ELSE LET k == CHOOSE x \in S : TRUE IN f[k] + SumOver(f, S \ {k})

\* C22: the statistics of GET /api/tasks/stats/overview carry, for each of
\* the five statuses, the number of the requester's tasks in that status (0
\* when there are none), and total is the sum of these counts.
C22_PerStatusCounts ==
  (res.op = "getTaskStats" /\ res.status = 200) =>
    LET stats == res.stats[1]
    IN  /\ Statuses \subseteq DOMAIN stats
        /\ \A st \in Statuses : stats[st] = OwnInStatus(res.user, st)
        /\ stats["total"] = SumOver(stats, Statuses)

\* C23: the stored password of every user is the hash of the password last
\* set for that user: a save that creates a user or modifies the password
\* stores the hash of it, and no other step changes the stored value.
C23_PasswordStoredHashed ==
  /\ [](\A u \in DOMAIN users :
          \E p \in Passwords \cup NewPasswords : users[u].password = BcryptHash(p))
  /\ []((res.op = "saveUser" /\ res.outcome = "saved" /\ res.body # <<>>) =>
          users[res.user].password = BcryptHash(res.body[1]))
  /\ []((res.op = "User.create" /\ res.outcome = "created") =>
          \E u \in DOMAIN users :
            /\ users[u].email = LowerTrim(res.body[1])
            /\ users[u].password = BcryptHash(res.body[2]))
  /\ [][\A u \in DOMAIN users :
          users'[u].password # users[u].password =>
            (res'.op = "saveUser" /\ res'.user = u /\ res'.body # <<>>)]_vars

\* C23 witness: a user whose password was changed, and so hashed anew, was
\* saved again with the password not modified, after a login with the new
\* password; the stored value is the hash of the new password.
C23_Witness ==
  /\ res.op = "saveUser" /\ res.outcome = "saved" /\ res.body = <<>>
  /\ res.user = "u1"
  /\ users["u1"].password = BcryptHash("Wrong1")
  /\ users["u1"].lastLogin # NoDate /\ users["u1"].loginAttempts = 0
  /\ "u3" \in DOMAIN users

\* C24: a wrong password on an account whose lock has expired, with no
\* successful login since, locks the account again only when it is the 5th
\* consecutive failure since the lock; a single one does not.
C24_RelockAfterFiveMore ==
  [][\A u \in Users, pw \in Passwords :
       (/\ ComparePassword(u, pw)
        /\ res'.outcome = "false"
        /\ users[u].lockUntil # NoDate /\ users[u].lockUntil <= now
        /\ isLocked(users'[u], now)) =>
         (streak'[u] - MAX_ATTEMPTS) % MAX_ATTEMPTS = 0]_vars

\* C27: loginAttempts of every user is between 0 and 5, the maximum the
\* schema declares.
C27_LoginAttemptsWithinMax ==
  \A u \in DOMAIN users :
    0 <= users[u].loginAttempts /\ users[u].loginAttempts <= MAX_LOGIN_ATTEMPTS

\* C29: a comparePassword call on an account whose lockUntil is in the
\* future throws and leaves loginAttempts, lockUntil and lastLogin as they
\* were, for a correct and for a wrong password.
C29_LockedCallChangesNothing ==
  [][(now' = now /\ res'.op = "comparePassword"
        /\ users[res'.user].lockUntil # NoDate
        /\ users[res'.user].lockUntil > now) =>
       /\ res'.outcome = "locked"
       /\ users'[res'.user].loginAttempts = users[res'.user].loginAttempts
       /\ users'[res'.user].lockUntil = users[res'.user].lockUntil
       /\ users'[res'.user].lastLogin = users[res'.user].lastLogin]_vars

\* C29 witness: a wrong password on an account that had logged in before
\* and is locked since an earlier time: the call threw and the counter, the
\* lock and the last login are those of before.
C29_Witness ==
  /\ res.op = "comparePassword" /\ res.outcome = "locked"
  /\ res.body = <<"Wrong1">>
  /\ now > 0
  /\ users[res.user].lockUntil > now
  /\ users[res.user].lockUntil < now + LOCK_MINUTES
  /\ users[res.user].loginAttempts = res.total
  /\ users[res.user].lastLogin # NoDate

C28_TotalsMatchListing ==
  (res.op = "getTasks" /\ res.next = 1) =>
    LET q     == res.body[1]
        limit == IF q.limit = <<>> THEN DEFAULT_LIMIT ELSE q.limit[1]
        found == {id \in DOMAIN tasks :
                    /\ IsMember(res.user, tasks[id])
                    /\ (q.status # <<>> /\ q.status[1] # "all") =>
                         tasks[id].status = q.status[1]
                    /\ (q.priority # <<>> /\ q.priority[1] # "all") =>
                         tasks[id].priority = q.priority[1]
                    /\ ~tasks[id].isArchived}
    IN  /\ res.total = Cardinality(found)
        /\ res.stats[1].totalPages = MathCeil(Cardinality(found), limit)

\* C26: every wrong-password call that completes leaves the persisted
\* loginAttempts one higher than it was before the call persisted, also when
\* another call loaded the record before: two such calls add 2.
C26_NoFailedAttemptLost ==
  [][\A p \in Procs :
       (loaded[p] # <<>> /\ loaded'[p] = <<>> /\ res'.outcome = "false") =>
         users'[loaded[p][1]._id].loginAttempts =
           users[loaded[p][1]._id].loginAttempts + 1]_vars

\* C30: ProtectedRoute renders the spinner while loading; when not loading,
\* a route that requires authentication renders its children when a user is
\* set and redirects to /login when none is, and a route with requireAuth
\* false redirects to / when a user is set.
C30_ProtectedRouteRenders ==
  res.op = "ProtectedRoute" =>
    LET given == res.body[1]
    IN  /\ given.loading => res.outcome = "spinner"
        /\ (given.requireAuth /\ res.outcome = "children") =>
             (~given.loading /\ given.user # "null")
        /\ (~given.loading /\ given.requireAuth /\ given.user # "null") =>
             res.outcome = "children"
        /\ (~given.loading /\ given.requireAuth /\ given.user = "null") =>
             res.outcome = "/login"
        /\ (~given.loading /\ ~given.requireAuth /\ given.user # "null") =>
             res.outcome = "/"

\* C30 witness: after a reload with a stored token, while getMe is awaited,
\* a protected route was rendered: no user yet, loading, the spinner.
C30_Witness ==
  /\ res.op = "ProtectedRoute" /\ res.outcome = "spinner"
  /\ res.body[1].requireAuth /\ res.body[1].loading
  /\ res.body[1].user = "null"
  /\ ui.token /\ ui.call = "getMe"

====
